---- MODULE Spec2Model ----
(***************************************************************************)
(* Model of transcription_bot.py: the checkpointed processing pipeline of  *)
(* CloudYouTubeTranscriptionBot (process_new_videos, retry_failed_videos,  *)
(* the reset entry point of main) against the two GitHub-hosted checkpoint *)
(* records last_check.json and processed_videos.json.                      *)
(*                                                                         *)
(* Time is an integer clock; datetime.now() reads it.  One clock unit is   *)
(* half a day, so timedelta(days=1) is OneDay = 2 units.                   *)
(* An absent remote file is <<>>, a present one <<content>>.               *)
(***************************************************************************)
EXTENDS Integers, Sequences, FiniteSets, TLC

\* ------------------------------------------------------------------ bounds
\* The clock stops at MaxTime; every processed item takes one clock unit.
MaxTime == 3
\* The largest components of the durations put in front of the filter.
MaxHours == 1
MaxMinutes == 4
MaxSeconds == 59

\* -------------------------------------------------------- program constants
MAX_DURATION == 180
\* timedelta(days=1) in clock units
OneDay == 2
\* default days_back of retry_failed_videos
DefaultDaysBack == 7
\* days of the reset date computed by main
ResetDays == 30

\* The channel's videos and their ISO-8601 durations (hours, minutes, seconds;
\* a zero component is absent from the string the API returns).
Videos == {"A", "B"}

Duration ==
    [v \in Videos |->
        IF v = "A" THEN [h |-> 0, m |-> 0, s |-> 45]
                   ELSE [h |-> 0, m |-> 3, s |-> 0]]

VARIABLES
    now,                    \* the wall clock, datetime.now()
    uploaded,               \* videos published on the channel
    publishedAt,            \* publish time of each uploaded video
    last_check_json,        \* remote record last_check.json: <<>> or <<t>>
    processed_videos_json,  \* remote record processed_videos.json: <<>> or <<set>>
    document,               \* the Google Doc: ids of the entries appended, in order
    pc,                     \* position of the current run
    mode,                   \* "normal", "retry" or "reset" (sys.argv[1])
    token,                  \* LAST_CHECK_GITHUB_TOKEN is set in this process
    force_date,             \* <<>> or <<retry_date>>
    processed_video_ids,    \* the set loaded by get_processed_videos_from_github
    videos,                 \* the discovery batch
    unprocessed_videos,     \* the part of the loop's list not yet iterated
    successfully_processed, \* the list to be persisted
    total_attempts,
    successful_attempts,
    log,                    \* what the run did: calls made and their outcomes
    candidate,              \* a search result in front of the duration filter
    acquisition,            \* one call of download_audio_to_temp on its own
    runs,                   \* two overlapping runs: position and locals of each
    processed_videos_sha    \* version of processed_videos.json in the store

vars == <<now, uploaded, publishedAt, last_check_json, processed_videos_json,
          document, pc, mode, token, force_date,
          processed_video_ids, videos, unprocessed_videos,
          successfully_processed, total_attempts, successful_attempts, log,
          candidate, acquisition, runs, processed_videos_sha>>

\* The variables of the two specifications that look at one function and at
\* two overlapping runs; a single run leaves them alone.
aux == <<candidate, acquisition, runs, processed_videos_sha>>

world == <<uploaded, publishedAt>>
store == <<last_check_json, processed_videos_json>>
run   == <<mode, token, force_date, processed_video_ids, videos,
           unprocessed_videos, successfully_processed, total_attempts,
           successful_attempts>>

\* ----------------------------------------------------------------- helpers
Range(s) == {s[i] : i \in 1..Len(s)}

\* set(list)
ToSet(s) == Range(s)

\* The record of one run, kept for the properties: the state of the store when
\* the run started, the items the loop went through with the calls made for
\* each, and the checkpoint calls the run made.
EmptyLog ==
    [wmBefore   |-> <<>>,    \* last_check_json at the start of the run
     psBefore   |-> <<>>,    \* processed_videos_json at the start of the run
     startedAt  |-> 0,       \* clock at the start of the run
     reset_date |-> <<>>,    \* the reset date main computed, if it did
     queryFailed |-> FALSE,  \* the discovery query failed (or had no API key)
     psReadOk   |-> FALSE,   \* the processed-ids read returned the stored record
     psRead     |-> <<>>,    \* get_processed_videos_from_github call: value returned
     wmRead     |-> <<>>,    \* get_last_check_time_from_github call: ok, at, value
     publishedAfter |-> <<>>, \* the publishedAfter of the search request, if made
     docLen     |-> 0,       \* length of the document at the start of the run
     items      |-> <<>>,    \* per item: id and which calls were made / succeeded
     psCalls    |-> <<>>,    \* save_processed_videos_to_github calls: payload, landed
     wmCalls    |-> <<>>]    \* save_last_check_time_to_github calls: value, landed


\* ------------------------------------------------- checkpoint store client
\* The GitHub contents API as the two save functions use it: GET the file for
\* its sha, then PUT the new content (with the sha if the GET returned 200).
\* The PUT lands when the request is authorised and goes through, and the file
\* is new or the sha of the GET was sent along.  A GET that raises, or a PUT
\* the store rejects, leaves the file as it was.
PutLands(file, authorised, getOk, putOk) ==
    authorised /\ putOk /\ (file = <<>> \/ getOk)

GitHubPut(file, content, authorised, getOk, putOk) ==
    IF PutLands(file, authorised, getOk, putOk) THEN <<content>> ELSE file

\* get_last_check_time_from_github: the stored timestamp, or now - 1 day when
\* there is no token, the request fails, the file is absent (status /= 200) or
\* the content does not parse.
get_last_check_time_from_github(tok, respOk, file, t) ==
    IF ~tok THEN t - OneDay
    ELSE IF respOk /\ file # <<>> THEN file[1]
    ELSE t - OneDay

\* A save that writes the time of a day ago.
save_last_check_time_to_github_DayBack(tok, getOk, putOk, file, t) ==
    IF ~tok THEN file
    ELSE GitHubPut(file, t - OneDay, TRUE, getOk, putOk)

\* save_last_check_time_to_github: returns at once without a token; otherwise
\* writes {'last_check': datetime.now()}.  The result is the file afterwards.
save_last_check_time_to_github(tok, getOk, putOk, file, t) ==
    IF ~tok THEN file
    ELSE GitHubPut(file, t, TRUE, getOk, putOk)

\* get_processed_videos_from_github: the stored ids as a set, or set().
get_processed_videos_from_github(tok, respOk, file) ==
    IF ~tok THEN {}
    ELSE IF respOk /\ file # <<>> THEN file[1]
    ELSE {}

\* save_processed_videos_to_github: no token check; without a token the header
\* is 'token None' and the store refuses the request.  Replaces the whole list.
save_processed_videos_to_github(tok, getOk, putOk, file, ids) ==
    GitHubPut(file, ToSet(ids), tok, getOk, putOk)

\* ---------------------------------------------------------------- discovery
\* is_short_video: re.search(r'PT(?:(\d+)M)?(?:(\d+)S)?') on the duration
\* string.  With an hour component the text after "PT" is digits and "H", both
\* optional groups match nothing and total_seconds is 0.  A failed lookup or
\* an item-less answer is False.
is_short_video(lookupOk, d) ==
    IF ~lookupOk THEN FALSE
    ELSE LET minutes == IF d.h > 0 THEN 0 ELSE d.m
             seconds == IF d.h > 0 THEN 0 ELSE d.s
             total_seconds == minutes * 60 + seconds
         IN  total_seconds <= MAX_DURATION

\* The search endpoint: the channel's videos published after since.
SearchItems(since) == {v \in uploaded : publishedAt[v] > since}

\* 'order': 'date': most recent first; videos of equal time in any order.
DateOrdered(S) ==
    {q \in [1..Cardinality(S) -> S] :
        /\ \A i, j \in 1..Cardinality(S) : i # j => q[i] # q[j]
        /\ \A i, j \in 1..Cardinality(S) :
              i < j => publishedAt[q[i]] >= publishedAt[q[j]]}

\* The query without its except branch: a failed request is not turned into [].
get_recent_videos_NoCatch(apiKey, respOk, since, looked) ==
    IF ~apiKey THEN {<<>>}
    ELSE DateOrdered({v \in SearchItems(since) :
                        is_short_video(v \in looked, Duration[v])})

\* get_recent_videos: [] without an API key or when the request raises;
\* otherwise the search items that pass is_short_video, in the order returned.
\* looked is the set of items whose duration lookup answered.
get_recent_videos(apiKey, respOk, since, looked) ==
    IF ~apiKey \/ ~respOk THEN {<<>>}
    ELSE DateOrdered({v \in SearchItems(since) :
                        is_short_video(v \in looked, Duration[v])})

\* The batch taken as it is, without the filter.
Unprocessed_All(vs, processed) == vs

\* The filter with its test the wrong way round.
Unprocessed_Inverted(vs, processed) == SelectSeq(vs, LAMBDA v : v \in processed)

\* [v for v in videos if v['id'] not in processed_video_ids]
Unprocessed(vs, processed) == SelectSeq(vs, LAMBDA v : v \notin processed)


\* ------------------------------------------------------------- orchestrator
\* list(processed_video_ids): the ids of the set in some order.
ListOf(S) == CHOOSE q \in [1..Cardinality(S) -> S] : Range(q) = S

\* The list started empty instead of from the loaded ids.
InitialProcessedList_Empty(processed) == <<>>

\* successfully_processed = list(processed_video_ids)
InitialProcessedList(processed) == ListOf(processed)

\* The append made whatever append_to_google_doc returned.
AfterAppend_Always(list, id, success) == Append(list, id)

\* if success: successfully_processed.append(video['id'])
AfterAppend(list, id, success) == IF success THEN Append(list, id) ELSE list

\* The decision with only its second branch: save when nothing was attempted.
UpdatesLastCheck_NoWorkOnly(successful, total) == total = 0

\* The decision without its last branch: save in every case.
UpdatesLastCheck_Always(successful, total) == TRUE

\* The decision after the loop of process_new_videos:
\*   if successful_attempts > 0: save; elif total_attempts == 0: save; else: no
UpdatesLastCheck(successful, total) ==
    IF successful > 0 THEN TRUE
    ELSE IF total = 0 THEN TRUE
    ELSE FALSE

\* A normal run that goes to the watermark save first.
AfterLoop_WatermarkFirst(m, successful) ==
    IF m = "normal" THEN "save_last_check"
    ELSE IF successful > 0 THEN "save_processed"
    ELSE "done"

\* Where a run goes when its for loop is over: process_new_videos saves the
\* processed list; retry_failed_videos saves it if successful_retries > 0.
AfterLoop(m, successful) ==
    IF m = "normal" THEN "save_processed"
    ELSE IF successful > 0 THEN "save_processed"
    ELSE "done"

\* for video in unprocessed_videos: a loop over an empty list is over at once.
EnterLoop(un, m) == IF un = <<>> THEN AfterLoop(m, 0) ELSE "loop"

\* The early returns with the second one missing.
NothingToDo_EmptyBatchOnly(vs, un) == vs = <<>>

\* The two early returns of process_new_videos: `if not videos` and
\* `if not unprocessed_videos`.
NothingToDo(vs, un) == vs = <<>> \/ un = <<>>

\* The calls one loop iteration makes for an item, given what each collaborator
\* answers: download_audio_to_temp (a file or None), transcribe_hebrew_audio
\* (None, "" or text), append_to_google_doc (True or False).
ItemRecord(id, audio_file, hebrew_text, success) ==
    [id         |-> id,
     download   |-> IF audio_file THEN "ok" ELSE "failed",
     transcribe |-> IF ~audio_file THEN "not_called"
                    ELSE IF hebrew_text = "text" THEN "ok" ELSE "failed",
     append     |-> IF ~audio_file \/ hebrew_text # "text" THEN "not_called"
                    ELSE IF success THEN "ok" ELSE "failed"]

\* ----------------------------------------------------------------- scratch
\* The scratch of one item: the directory made by tempfile.mkdtemp() and the
\* files in it.
NoScratch == [temp_dir |-> FALSE, files |-> {}]

\* download_via_api_alternative: one of the two services delivers the audio
\* into temp_dir, or None is returned.
download_via_api_alternative(api) ==
    IF api THEN [audio_file |-> "audio.mp3",
                 scratch |-> [temp_dir |-> TRUE, files |-> {"audio.mp3"}]]
           ELSE [audio_file |-> "None",
                 scratch |-> [temp_dir |-> TRUE, files |-> {}]]

\* download_audio_to_temp: the directory is made first; the three yt-dlp
\* methods are tried in turn (m1, m2, m3: which of them would deliver); if
\* none delivers the API alternative is used; if one delivers the file is
\* looked for under the five known extensions (found) and None is returned
\* when it carries another one.
download_audio_to_temp(m1, m2, m3, found, api) ==
    LET success == m1 \/ m2 \/ m3
    IN  IF ~success THEN download_via_api_alternative(api)
        ELSE IF found
        THEN [audio_file |-> "audio.ext",
              scratch |-> [temp_dir |-> TRUE, files |-> {"audio.ext"}]]
        ELSE [audio_file |-> "None",
              scratch |-> [temp_dir |-> TRUE, files |-> {"audio.other"}]]

\* What a download can return and leave behind.
DownloadOutcomes ==
    {download_audio_to_temp(m1, m2, m3, found, api) :
        m1 \in BOOLEAN, m2 \in BOOLEAN, m3 \in BOOLEAN,
        found \in BOOLEAN, api \in BOOLEAN}

\* cleanup_temp_file: when the file exists it is removed, then its directory,
\* which os.rmdir removes only when it is empty; errors are swallowed.
cleanup_temp_file(file_path, scratch) ==
    IF file_path # "None" /\ file_path \in scratch.files
    THEN LET left == scratch.files \ {file_path}
         IN  [temp_dir |-> left # {}, files |-> left]
    ELSE scratch

\* The scratch left when the loop moves on from an item: a failed download
\* continues at once, the two later stages are followed by cleanup_temp_file.
ScratchAfterItem(dl) ==
    IF dl.audio_file = "None" THEN dl.scratch
    ELSE cleanup_temp_file(dl.audio_file, dl.scratch)

Init ==
    /\ now = 0
    /\ uploaded = {}
    /\ publishedAt = [v \in Videos |-> 0]
    /\ last_check_json = <<>>
    /\ processed_videos_json = <<>>
    /\ document = <<>>
    /\ pc = "idle"
    /\ mode = "normal"
    /\ token = TRUE
    /\ force_date = <<>>
    /\ processed_video_ids = {}
    /\ videos = <<>>
    /\ unprocessed_videos = <<>>
    /\ successfully_processed = <<>>
    /\ total_attempts = 0
    /\ successful_attempts = 0
    /\ log = EmptyLog
    /\ candidate = <<>>
    /\ acquisition = <<>>
    /\ runs = <<>>
    /\ processed_videos_sha = 0

\* The variables of the single run of Spec.
single == <<now, world, store, document, pc, run, log>>

\* ------------------------------------------------------------- environment
\* Time passes.  (A finished process is observed at "done" and then leaves;
\* the environment moves on from there.)
Tick ==
    /\ pc # "done"
    /\ now < MaxTime
    /\ now' = now + 1
    /\ UNCHANGED <<world, store, document, pc, run, log>>
    /\ UNCHANGED aux

\* The channel publishes a video.
Upload(v) ==
    /\ pc # "done"
    /\ v \notin uploaded
    /\ uploaded' = uploaded \cup {v}
    /\ publishedAt' = [publishedAt EXCEPT ![v] = now]
    /\ UNCHANGED <<now, store, document, pc, run, log>>
    /\ UNCHANGED aux

\* -------------------------------------------------------------------- main
\* main(): a new process starts in one of the three modes, with or without
\* GITHUB_TOKEN in its environment.  No run is in progress.
StartRun(m, tok, days_back) ==
    /\ pc = "idle"
    /\ mode' = m
    /\ token' = tok
    /\ force_date' = IF m = "retry" THEN <<now - days_back * OneDay>> ELSE <<>>
    /\ log' = [EmptyLog EXCEPT !.wmBefore = last_check_json,
                               !.psBefore = processed_videos_json,
                               !.startedAt = now,
                               !.docLen = Len(document),
                               !.reset_date = IF m = "reset"
                                              THEN <<now - ResetDays * OneDay>>
                                              ELSE <<>>]
    /\ pc' = CASE m = "normal" -> "get_processed"
               [] m = "retry"  -> "discover"
               [] OTHER        -> "save_last_check"
    /\ UNCHANGED <<now, world, store, document, processed_video_ids,
                   videos, unprocessed_videos, successfully_processed,
                   total_attempts, successful_attempts>>
    /\ UNCHANGED aux

\* The days_back values an operator passes to the retry mode.
DaysBack == {1, DefaultDaysBack}

\* What a request to a remote service does: it answers with success, answers
\* with an error status (or a body that does not parse), or raises.
Responses == {"ok", "error", "raise"}

\* Whether an exception leaves the function.  Each of the four checkpoint
\* functions wraps its requests and its parsing in try / except Exception and
\* returns from the handler; without a token the two watermark functions and
\* the read of the processed set return before any request.
get_last_check_time_from_github_raises_NoExcept(tok, resp) ==
    tok /\ resp = "raise"
get_last_check_time_from_github_raises(tok, resp) == FALSE

get_processed_videos_from_github_raises(tok, resp) == FALSE

save_last_check_time_to_github_raises(tok, get, put) == FALSE

save_processed_videos_to_github_raises_NoExcept(tok, get, put) ==
    get = "raise" \/ put = "raise"
save_processed_videos_to_github_raises(tok, get, put) == FALSE

\* get_processed_videos_from_github, called first by process_new_videos and
\* after discovery by retry_failed_videos, which then filters the batch and
\* returns when nothing is left.
GetProcessedWith(resp) ==
    /\ pc = "get_processed"
    /\   LET ids == get_processed_videos_from_github(token, resp = "ok",
                                                     processed_videos_json)
             un  == Unprocessed(videos, ids)
             raised == get_processed_videos_from_github_raises(token, resp)
         IN  /\ processed_video_ids' = ids
             /\ IF mode = "normal"
                THEN /\ pc' = IF raised THEN "aborted" ELSE "discover"
                     /\ UNCHANGED <<unprocessed_videos, successfully_processed>>
                ELSE /\ unprocessed_videos' = un
                     /\ successfully_processed' =
                            IF un = <<>> THEN <<>> ELSE InitialProcessedList(ids)
                     /\ pc' = IF raised THEN "aborted"
                              ELSE IF un = <<>> THEN "done" ELSE "loop"
             /\ log' = [log EXCEPT !.psReadOk = token /\ resp = "ok",
                                   !.psRead = <<[value |-> ids]>>]
    /\ UNCHANGED <<now, world, store, document, mode, token, force_date,
                   videos, total_attempts, successful_attempts>>
    /\ UNCHANGED aux

GetProcessed == \E resp \in Responses : GetProcessedWith(resp)

\* The start of the search window with the force_date ignored.
QuerySince_IgnoresForceDate(fd, stored) == stored

\* The start of the search window in get_recent_videos: the force_date when
\* one is given, else the watermark read from the store.
QuerySince(fd, stored) == IF fd # <<>> THEN fd[1] ELSE stored

\* get_recent_videos and what its caller does with the batch: an empty batch
\* ends the run (after a watermark save in the normal mode); the normal mode
\* filters the batch and, if nothing is left, saves the watermark and ends.
\* The watermark is read only when there is an API key and no force_date.
DiscoverWith(apiKey, wm, respOk, looked) ==
    /\ pc = "discover"
    /\   LET reads == apiKey /\ force_date = <<>>
             since == QuerySince(force_date,
                          get_last_check_time_from_github(
                              token, wm = "ok", last_check_json, now))
             raised == reads
                       /\ get_last_check_time_from_github_raises(token, wm)
         IN  \E vs \in get_recent_videos(apiKey, respOk, since, looked) :
               LET un == Unprocessed(vs, processed_video_ids)
               IN  /\ videos' = vs
                   /\ log' = [log EXCEPT
                        !.queryFailed = ~apiKey \/ ~respOk,
                        !.publishedAfter = IF apiKey THEN <<since>> ELSE <<>>,
                        !.wmRead = IF reads
                                   THEN <<[ok    |-> token /\ wm = "ok",
                                           at    |-> now,
                                           value |-> since]>>
                                   ELSE <<>>]
                   /\ IF raised
                      THEN /\ pc' = "aborted"
                           /\ UNCHANGED <<unprocessed_videos,
                                          successfully_processed>>
                      ELSE IF mode = "retry"
                      THEN /\ pc' = IF vs = <<>> THEN "done" ELSE "get_processed"
                           /\ UNCHANGED <<unprocessed_videos,
                                          successfully_processed>>
                      ELSE IF NothingToDo(vs, un)
                      THEN /\ pc' = "save_last_check"
                           /\ UNCHANGED <<unprocessed_videos,
                                          successfully_processed>>
                      ELSE /\ pc' = EnterLoop(un, mode)
                           /\ unprocessed_videos' = un
                           /\ successfully_processed' =
                                  InitialProcessedList(processed_video_ids)
    /\ UNCHANGED <<now, world, store, document, mode, token, force_date,
                   processed_video_ids, total_attempts, successful_attempts>>
    /\ UNCHANGED aux

Discover ==
    \E apiKey \in BOOLEAN, wm \in Responses, respOk \in BOOLEAN,
       looked \in SUBSET uploaded :
        DiscoverWith(apiKey, wm, respOk, looked)

\* Where the loop goes after an item: a loop that stops at the first item
\* that fails.
AfterItem_StopsOnFailure(rest, ok, m, successful) ==
    IF rest # <<>> /\ ok THEN "loop" ELSE AfterLoop(m, successful)

\* Where the loop goes after an item: each failing stage ends the iteration
\* with `continue`, a complete one runs to the end of the body; the loop goes
\* on with the next item while there is one.
AfterItem(rest, ok, m, successful) ==
    IF rest # <<>> THEN "loop" ELSE AfterLoop(m, successful)

\* One iteration of the for loop (the same body in both modes): download,
\* transcribe, append to the document, in that order, each only if the one
\* before it gave a result.  The work takes time.
ProcessVideoWith(dl, hebrew_text, success) ==
    /\ pc = "loop"
    /\ unprocessed_videos # <<>>
    /\ now < MaxTime
    /\   LET video == Head(unprocessed_videos)
             rec   == ItemRecord(video, dl.audio_file # "None", hebrew_text,
                                 success)
                      @@ [scratch |-> ScratchAfterItem(dl)]
             rest  == Tail(unprocessed_videos)
             good  == IF rec.append = "ok" THEN 1 ELSE 0
         IN  /\ total_attempts' =
                    IF mode = "normal" THEN total_attempts + 1 ELSE total_attempts
             /\ successfully_processed' =
                    IF rec.append = "not_called" THEN successfully_processed
                    ELSE AfterAppend(successfully_processed, video, success)
             /\ successful_attempts' = successful_attempts + good
             /\ document' = IF rec.append = "ok" THEN Append(document, video)
                            ELSE document
             /\ unprocessed_videos' = rest
             /\ log' = [log EXCEPT !.items = Append(@, rec)]
             /\ pc' = AfterItem(rest, rec.append = "ok", mode,
                                successful_attempts + good)
    /\ now' = now + 1
    /\ UNCHANGED <<world, store, mode, token, force_date,
                   processed_video_ids, videos>>
    /\ UNCHANGED aux

ProcessVideo ==
    \E dl \in DownloadOutcomes, hebrew_text \in {"None", "", "text"},
       success \in BOOLEAN :
        ProcessVideoWith(dl, hebrew_text, success)

\* Where the run goes after a watermark save: both early returns of
\* process_new_videos, its last statement and the reset branch of main end
\* the run.
AfterSaveLastCheck_FallsThrough(calls) ==
    IF calls = 1 THEN "save_last_check" ELSE "done"
AfterSaveLastCheck(calls) == "done"

\* save_processed_videos_to_github(successfully_processed), then, in the
\* normal mode, the decision whether to save the watermark.  A GET that
\* raises leaves the function before the PUT.
SaveProcessedWith(get, put) ==
    /\ pc = "save_processed"
    /\   LET getOk == get = "ok"
             putOk == get # "raise" /\ put = "ok"
         IN
         /\ processed_videos_json' =
                save_processed_videos_to_github(token, getOk, putOk,
                    processed_videos_json, successfully_processed)
         /\ log' = [log EXCEPT !.psCalls = Append(@,
                       [payload |-> ToSet(successfully_processed),
                        landed  |-> PutLands(processed_videos_json, token,
                                             getOk, putOk)])]
    /\ pc' = IF save_processed_videos_to_github_raises(token, get, put)
             THEN "aborted"
             ELSE IF mode = "normal"
                /\ UpdatesLastCheck(successful_attempts, total_attempts)
             THEN "save_last_check" ELSE "done"
    /\ UNCHANGED <<now, world, last_check_json, document, run>>
    /\ UNCHANGED aux

SaveProcessed ==
    \E get \in Responses, put \in Responses : SaveProcessedWith(get, put)

\* save_last_check_time_to_github(): the last step of a normal run that
\* saves the watermark, and the only step of the reset mode.
SaveLastCheckWith(get, put) ==
    /\ pc = "save_last_check"
    /\   LET getOk == get = "ok"
             putOk == get # "raise" /\ put = "ok"
         IN
         /\ last_check_json' =
                save_last_check_time_to_github(token, getOk, putOk,
                                               last_check_json, now)
         /\ log' = [log EXCEPT !.wmCalls = Append(@,
                       [value  |-> now,
                        landed |-> token /\ PutLands(last_check_json, TRUE,
                                                     getOk, putOk)])]
    /\ pc' = IF save_last_check_time_to_github_raises(token, get, put)
             THEN "aborted"
             ELSE AfterSaveLastCheck(Len(log.wmCalls) + 1)
    /\ UNCHANGED <<now, world, processed_videos_json, document, run>>
    /\ UNCHANGED aux

SaveLastCheck ==
    \E get \in Responses, put \in Responses : SaveLastCheckWith(get, put)

\* The process exits; nothing of the run is left but the two remote records
\* and the document.
EndRun ==
    /\ pc = "done"
    /\ pc' = "idle"
    /\ mode' = "normal"
    /\ token' = TRUE
    /\ force_date' = <<>>
    /\ processed_video_ids' = {}
    /\ videos' = <<>>
    /\ unprocessed_videos' = <<>>
    /\ successfully_processed' = <<>>
    /\ total_attempts' = 0
    /\ successful_attempts' = 0
    /\ log' = EmptyLog
    /\ UNCHANGED <<now, world, store, document>>
    /\ UNCHANGED aux

Next ==
    \/ Tick
    \/ \E v \in Videos : Upload(v)
    \/ \E m \in {"normal", "retry", "reset"}, tok \in BOOLEAN, d \in DaysBack :
         StartRun(m, tok, d)
    \/ GetProcessed
    \/ Discover
    \/ ProcessVideo
    \/ SaveProcessed
    \/ SaveLastCheck
    \/ EndRun

Spec == Init /\ [][Next]_vars

\* ------------------------------------------- repeated scheduled normal runs
\* The scheduler starts normal runs over and over, with the token set, the
\* checkpoint store and the discovery API answering every request, and every
\* duration lookup succeeding.  A run left a watermark before the channel
\* published anything.
RetryInit ==
    /\ now = 0
    /\ uploaded = {}
    /\ publishedAt = [v \in Videos |-> 0]
    /\ last_check_json = <<0 - 1>>
    /\ processed_videos_json = <<>>
    /\ document = <<>>
    /\ pc = "idle"
    /\ mode = "normal"
    /\ token = TRUE
    /\ force_date = <<>>
    /\ processed_video_ids = {}
    /\ videos = <<>>
    /\ unprocessed_videos = <<>>
    /\ successfully_processed = <<>>
    /\ total_attempts = 0
    /\ successful_attempts = 0
    /\ log = EmptyLog
    /\ candidate = <<>>
    /\ acquisition = <<>>
    /\ runs = <<>>
    /\ processed_videos_sha = 0

ScheduledRun == StartRun("normal", TRUE, DefaultDaysBack)
GetProcessedOk == GetProcessedWith("ok")
DiscoverOk == DiscoverWith(TRUE, "ok", TRUE, uploaded)
SaveProcessedOk == SaveProcessedWith("ok", "ok")
SaveLastCheckOk == SaveLastCheckWith("ok", "ok")

\* The iteration for video v in which all three stages succeed.
ProcessVideoOk(v) ==
    /\ unprocessed_videos # <<>>
    /\ Head(unprocessed_videos) = v
    /\ ProcessVideoWith(download_audio_to_temp(TRUE, TRUE, TRUE, TRUE, TRUE),
                        "text", TRUE)

RetryNext ==
    \/ Tick
    \/ \E v \in Videos : Upload(v)
    \/ ScheduledRun
    \/ GetProcessedOk
    \/ DiscoverOk
    \/ ProcessVideo
    \/ SaveProcessedOk
    \/ SaveLastCheckOk
    \/ EndRun

\* Every step of a run is taken when it can be, runs are started again and
\* again, and an item that is attempted again and again eventually succeeds
\* at all three stages.
RetryFairness ==
    /\ WF_vars(ScheduledRun)
    /\ WF_vars(GetProcessedOk)
    /\ WF_vars(DiscoverOk)
    /\ WF_vars(ProcessVideo)
    /\ WF_vars(SaveProcessedOk)
    /\ WF_vars(SaveLastCheckOk)
    /\ WF_vars(EndRun)
    /\ \A v \in Videos : SF_vars(ProcessVideoOk(v))

RetrySpec == RetryInit /\ [][RetryNext]_vars /\ RetryFairness


\* ------------------------------------------------- the duration filter alone
\* One search result in front of the filter of get_recent_videos: the
\* duration the videos endpoint reports for it (hours, minutes, seconds, not
\* all zero) and whether the lookup answers with an item.
Durations ==
    {d \in [h : 0..MaxHours, m : 0..MaxMinutes, s : 0..MaxSeconds] :
        d.h + d.m + d.s > 0}

\* The length in seconds that a duration denotes.
TotalSeconds(d) == d.h * 3600 + d.m * 60 + d.s

FilterInit ==
    /\ now = 0
    /\ uploaded = {}
    /\ publishedAt = [v \in Videos |-> 0]
    /\ last_check_json = <<>>
    /\ processed_videos_json = <<>>
    /\ document = <<>>
    /\ pc = "idle"
    /\ mode = "normal"
    /\ token = TRUE
    /\ force_date = <<>>
    /\ processed_video_ids = {}
    /\ videos = <<>>
    /\ unprocessed_videos = <<>>
    /\ successfully_processed = <<>>
    /\ total_attempts = 0
    /\ successful_attempts = 0
    /\ log = EmptyLog
    /\ candidate \in [duration : Durations, lookupOk : BOOLEAN,
                      in_videos : {"pending"}]
    /\ acquisition = <<>>
    /\ runs = <<>>
    /\ processed_videos_sha = 0

\* `if self.is_short_video(video_id): videos.append(...)`.
FilterCandidate ==
    /\ candidate.in_videos = "pending"
    /\ candidate' =
          [candidate EXCEPT !.in_videos =
              IF is_short_video(candidate.lookupOk, candidate.duration)
              THEN "yes" ELSE "no"]
    /\ UNCHANGED <<single, acquisition, runs, processed_videos_sha>>

FilterNext == FilterCandidate

FilterSpec == FilterInit /\ [][FilterNext]_vars

\* --------------------------------------------------- one acquisition alone
\* One call of download_audio_to_temp: which of the three yt-dlp methods
\* would deliver (m1, m2, m3), whether the delivered file carries one of the
\* five extensions looked for (found), and which of the two conversion
\* services would deliver (api1, api2).
StrategyOrder == <<"standard", "alt_format", "mobile", "api">>

\* The strategies the call attempts, in the order of the attempts: method 2
\* is inside the except of method 1, method 3 inside the except of method 2,
\* and download_via_api_alternative is called when none of them set success.
StrategiesTried(m1, m2, m3) ==
    <<"standard">>
    \o (IF ~m1 THEN <<"alt_format">> ELSE <<>>)
    \o (IF ~m1 /\ ~m2 THEN <<"mobile">> ELSE <<>>)
    \o (IF ~m1 /\ ~m2 /\ ~m3 THEN <<"api">> ELSE <<>>)

AcquireInit ==
    /\ now = 0
    /\ uploaded = {}
    /\ publishedAt = [v \in Videos |-> 0]
    /\ last_check_json = <<>>
    /\ processed_videos_json = <<>>
    /\ document = <<>>
    /\ pc = "idle"
    /\ mode = "normal"
    /\ token = TRUE
    /\ force_date = <<>>
    /\ processed_video_ids = {}
    /\ videos = <<>>
    /\ unprocessed_videos = <<>>
    /\ successfully_processed = <<>>
    /\ total_attempts = 0
    /\ successful_attempts = 0
    /\ log = EmptyLog
    /\ candidate = <<>>
    /\ acquisition \in [m1 : BOOLEAN, m2 : BOOLEAN, m3 : BOOLEAN,
                        found : BOOLEAN, api1 : BOOLEAN, api2 : BOOLEAN,
                        tried : {<<>>}, audio_file : {"pending"}]
    /\ runs = <<>>
    /\ processed_videos_sha = 0

\* audio_file = self.download_audio_to_temp(video['url'])
Acquire ==
    /\ acquisition.audio_file = "pending"
    /\ LET a  == acquisition
           dl == download_audio_to_temp(a.m1, a.m2, a.m3, a.found,
                                        a.api1 \/ a.api2)
       IN  acquisition' =
               [a EXCEPT !.tried = StrategiesTried(a.m1, a.m2, a.m3),
                         !.audio_file = dl.audio_file]
    /\ UNCHANGED <<single, candidate, runs, processed_videos_sha>>

AcquireNext == Acquire

AcquireSpec == AcquireInit /\ [][AcquireNext]_vars

\* -------------------------------------------------------- two runs overlap
\* Two processes run process_new_videos at the same time against the same
\* store, which answers every request.  Each request is a step of its own:
\* the GET and the PUT of save_processed_videos_to_github are separate.
\* The channel has published both videos, and only the processed-set record
\* is followed.
Runs == {1, 2}

NewRun ==
    [pc                     |-> "get_processed",
     processed_video_ids    |-> {},
     unprocessed_videos     |-> <<>>,
     successfully_processed |-> <<>>,
     sha                    |-> <<>>]

\* The contents API on PUT: a file that exists is replaced only when the
\* request carries its current sha; a file that does not exist is created by
\* a request without one.
StoreAccepts(file, current, given) ==
    IF file = <<>> THEN given = <<>> ELSE given = <<current>>

OverlapInit ==
    /\ now = 0
    /\ uploaded = Videos
    /\ publishedAt = [v \in Videos |-> 0]
    /\ last_check_json = <<>>
    /\ processed_videos_json = <<>>
    /\ document = <<>>
    /\ pc = "idle"
    /\ mode = "normal"
    /\ token = TRUE
    /\ force_date = <<>>
    /\ processed_video_ids = {}
    /\ videos = <<>>
    /\ unprocessed_videos = <<>>
    /\ successfully_processed = <<>>
    /\ total_attempts = 0
    /\ successful_attempts = 0
    /\ log = EmptyLog
    /\ candidate = <<>>
    /\ acquisition = <<>>
    /\ runs = [r \in Runs |-> NewRun]
    /\ processed_videos_sha = 0

\* processed_video_ids = self.get_processed_videos_from_github()
RunGetProcessed(r) ==
    /\ runs[r].pc = "get_processed"
    /\ runs' = [runs EXCEPT
          ![r].processed_video_ids =
              get_processed_videos_from_github(TRUE, TRUE,
                                               processed_videos_json),
          ![r].pc = "discover"]
    /\ UNCHANGED <<single, candidate, acquisition, processed_videos_sha>>

\* videos = self.get_recent_videos() and the filter on the loaded set; a run
\* with nothing to do makes no processed-set write.
RunDiscover(r) ==
    /\ runs[r].pc = "discover"
    /\ \E vs \in get_recent_videos(TRUE, TRUE,
                                   get_last_check_time_from_github(
                                       TRUE, TRUE, last_check_json, now),
                                   uploaded) :
         LET un == Unprocessed(vs, runs[r].processed_video_ids)
         IN  runs' = [runs EXCEPT
                 ![r].unprocessed_videos = un,
                 ![r].successfully_processed =
                     IF NothingToDo(vs, un) THEN <<>>
                     ELSE InitialProcessedList(runs[r].processed_video_ids),
                 ![r].pc = IF NothingToDo(vs, un) THEN "done" ELSE "loop"]
    /\ UNCHANGED <<single, candidate, acquisition, processed_videos_sha>>

\* One iteration of the loop; success is what append_to_google_doc returned
\* (False also stands for a failure of an earlier stage).
RunProcessVideo(r) ==
    /\ runs[r].pc = "loop"
    /\ \E success \in BOOLEAN :
         LET video == Head(runs[r].unprocessed_videos)
             rest  == Tail(runs[r].unprocessed_videos)
         IN  runs' = [runs EXCEPT
                 ![r].successfully_processed = AfterAppend(@, video, success),
                 ![r].unprocessed_videos = rest,
                 ![r].pc = IF rest # <<>> THEN "loop" ELSE "save_get"]
    /\ UNCHANGED <<single, candidate, acquisition, processed_videos_sha>>

\* save_processed_videos_to_github, first request: GET the file; with status
\* 200 its sha goes into the PUT.
RunSaveGet(r) ==
    /\ runs[r].pc = "save_get"
    /\ runs' = [runs EXCEPT
          ![r].sha = IF processed_videos_json # <<>>
                     THEN <<processed_videos_sha>> ELSE <<>>,
          ![r].pc = "save_put"]
    /\ UNCHANGED <<single, candidate, acquisition, processed_videos_sha>>

\* save_processed_videos_to_github, second request: PUT the whole list; the
\* answer is not looked at.
RunSavePut(r) ==
    /\ runs[r].pc = "save_put"
    /\ LET accepted == StoreAccepts(processed_videos_json,
                                    processed_videos_sha, runs[r].sha)
       IN  /\ processed_videos_json' =
                  IF accepted
                  THEN <<ToSet(runs[r].successfully_processed)>>
                  ELSE processed_videos_json
           /\ processed_videos_sha' =
                  IF accepted THEN processed_videos_sha + 1
                  ELSE processed_videos_sha
    /\ runs' = [runs EXCEPT ![r].pc = "done"]
    /\ UNCHANGED <<now, world, last_check_json, document, pc, run, log,
                   candidate, acquisition>>

OverlapNext ==
    \E r \in Runs :
        \/ RunGetProcessed(r)
        \/ RunDiscover(r)
        \/ RunProcessVideo(r)
        \/ RunSaveGet(r)
        \/ RunSavePut(r)

OverlapSpec == OverlapInit /\ [][OverlapNext]_vars


\* ------------------------------------------------------------ observations
\* The ids a checkpoint record holds; an absent record holds none.
Content(file) == IF file = <<>> THEN {} ELSE file[1]

PersistedIds == Content(processed_videos_json)

\* The watermark a read of the record returns at time t.
Watermark(file, t) == get_last_check_time_from_github(TRUE, TRUE, file, t)

\* Whether a discovery query with this watermark record returns v; without a
\* record the query reaches one day back from the time it is made.
InWindow(v, file) == file = <<>> \/ publishedAt[v] > file[1]

ItemIndices == 1..Len(log.items)

\* Ids for which download_audio_to_temp was called in this run.
Attempted == {log.items[i].id : i \in ItemIndices}

\* Ids for which append_to_google_doc returned True in this run.
Sunk == {log.items[i].id : i \in {j \in ItemIndices : log.items[j].append = "ok"}}

\* Ids of the items of this run that failed at some stage.
Failed == {log.items[i].id : i \in {j \in ItemIndices : log.items[j].append # "ok"}}

NormalRunDone == pc = "done" /\ mode = "normal"
RetryRunDone  == pc = "done" /\ mode = "retry"

\* ---------------------------------------------------------------- claims
\* C1: checkpoint-advance invariant.  At the end of a normal run with
\* 0 < succeeded < attempted the stored watermark is the one the run started
\* with, and the run called the watermark save iff attempted = 0 or
\* succeeded = attempted.
C1_CheckpointAdvance ==
    NormalRunDone =>
        /\ (0 < successful_attempts /\ successful_attempts < total_attempts)
              => last_check_json = log.wmBefore
        /\ (log.wmCalls # <<>>)
              <=> (total_attempts = 0 \/ successful_attempts = total_attempts)

\* C2: no silent data loss.  At the end of a normal run, an item that failed in
\* the run, is not in the persisted set and was inside the discovery window of
\* the watermark the run started with is still inside the window of the
\* stored watermark.
C2_NoSilentDataLoss ==
    NormalRunDone =>
        \A v \in Failed :
            (v \notin PersistedIds /\ InWindow(v, log.wmBefore))
                => InWindow(v, last_check_json)


\* C3: an id joins the processed list, in memory and in what is persisted, only
\* after append_to_google_doc returned True for it in the same run: the ids the
\* run added to the loaded set, in the list and in every payload it saved, are
\* ids whose append succeeded in this run, no failed item is among them, and
\* every persisted id is an entry of the document.
C3_AddedOnlyAfterSinkSuccess ==
    /\ ToSet(successfully_processed) \ processed_video_ids \subseteq Sunk
    /\ \A i \in 1..Len(log.psCalls) :
          log.psCalls[i].payload \ processed_video_ids \subseteq Sunk
    /\ Failed \cap (ToSet(successfully_processed) \ processed_video_ids) = {}
    /\ PersistedIds \subseteq Range(document)

\* A run in which one item failed at the sink append and another succeeded, and
\* the persisted record took the save.
C3_Witness ==
    /\ pc = "done"
    /\ \E i \in ItemIndices : log.items[i].append = "failed"
    /\ Sunk # {}
    /\ log.psCalls # <<>> /\ log.psCalls[1].landed
    /\ PersistedIds = processed_video_ids \cup Sunk

\* C4: dedup.  No run calls download, transcribe or append for an id of the
\* processed set it loaded; when the read returned the stored record, that is
\* the set persisted when the run started.
C4_Dedup ==
    /\ Attempted \cap processed_video_ids = {}
    /\ log.psReadOk => Attempted \cap Content(log.psBefore) = {}

\* A normal run whose batch held a processed id and a new one: the new one was
\* processed, the processed one not touched, and both are persisted at the end.
C4_Witness ==
    /\ NormalRunDone
    /\ log.psReadOk
    /\ Len(videos) = 2
    /\ processed_video_ids = {"B"}
    /\ Attempted = {"A"} /\ Sunk = {"A"}
    /\ PersistedIds = {"A", "B"}

\* C5: full-success watermark advance.  A normal run with attempted > 0 and
\* succeeded = attempted calls the watermark save once, and when the store
\* takes the write the stored watermark is later than the watermark stored
\* (or defaulted) when the run started.
C5_FullSuccessAdvances ==
    (NormalRunDone /\ total_attempts > 0
        /\ successful_attempts = total_attempts) =>
        /\ Len(log.wmCalls) = 1
        /\ log.wmCalls[1].landed =>
              /\ last_check_json # <<>>
              /\ last_check_json[1] > Watermark(log.wmBefore, log.startedAt)

\* Both items of a batch succeeded and the watermark, stored before, moved.
C5_Witness ==
    /\ NormalRunDone
    /\ total_attempts = 2 /\ successful_attempts = 2
    /\ log.wmBefore # <<>>
    /\ log.wmCalls # <<>> /\ log.wmCalls[1].landed
    /\ last_check_json[1] > log.wmBefore[1]

\* C6: a normal run with attempted > 0 and succeeded = 0 makes no watermark
\* save call and leaves the stored watermark as it was.
C6_NoProgressNoAdvance ==
    (NormalRunDone /\ total_attempts > 0 /\ successful_attempts = 0) =>
        /\ log.wmCalls = <<>>
        /\ last_check_json = log.wmBefore

\* Two items attempted, both failed, with a watermark stored earlier.
C6_Witness ==
    /\ NormalRunDone
    /\ total_attempts = 2 /\ successful_attempts = 0
    /\ log.wmBefore # <<>>
    /\ last_check_json = log.wmBefore
    /\ log.psCalls # <<>>


\* C7: the persisted processed set grows monotonically: every id persisted
\* when a run started is still persisted at every later point of the run,
\* also when the run's read of the set failed or returned nothing.
C7_PersistedSetMonotone ==
    Content(log.psBefore) \subseteq PersistedIds

\* C8: a run (normal or retry) in which an item succeeded calls the
\* processed-set save once, with exactly the loaded set plus the ids that
\* succeeded in the run, whether or not other items failed; when the store
\* takes the write the record is that set.
C8_SavesUnionOnSuccess ==
    (pc = "done" /\ mode \in {"normal", "retry"} /\ successful_attempts > 0) =>
        /\ Len(log.psCalls) = 1
        /\ log.psCalls[1].payload = processed_video_ids \cup Sunk
        /\ log.psCalls[1].landed =>
              processed_videos_json = <<processed_video_ids \cup Sunk>>

\* A retry run in which one item succeeded and the other failed, saved.
C8_Witness ==
    /\ RetryRunDone
    /\ Sunk # {} /\ Failed # {}
    /\ log.psCalls # <<>> /\ log.psCalls[1].landed
    /\ PersistedIds = Sunk

\* A normal run that loaded a non-empty set and added one id to it.
C8_WitnessLoaded ==
    /\ NormalRunDone
    /\ processed_video_ids # {} /\ Sunk # {}
    /\ log.psCalls # <<>> /\ log.psCalls[1].landed
    /\ PersistedIds = {"A", "B"}

\* C9: idempotence.  A normal run whose discovery batch holds nothing outside
\* the processed set it loaded (an empty batch included) makes no download,
\* transcribe or append call, adds no entry to the document, makes no
\* processed-set save and leaves the persisted set as it was.
C9_Idempotent ==
    (NormalRunDone /\ Range(videos) \subseteq processed_video_ids) =>
        /\ log.items = <<>>
        /\ Len(document) = log.docLen
        /\ log.psCalls = <<>>
        /\ processed_videos_json = log.psBefore

\* A second run over a batch that an earlier run processed completely.
C9_Witness ==
    /\ NormalRunDone
    /\ Len(videos) = 2
    /\ log.psReadOk
    /\ processed_video_ids = {"A", "B"}
    /\ Range(document) = {"A", "B"}
    /\ Len(document) = log.docLen
    /\ PersistedIds = {"A", "B"}

C11_ScratchCleanup ==
    \A i \in ItemIndices : log.items[i].scratch = NoScratch

\* C12: the reset entry point moves the watermark back: after a reset run
\* whose write the store took, the stored watermark is the reset date computed
\* by main (30 days before the reset), which is earlier than the time of the
\* reset.
C12_ResetMovesBack ==
    (pc = "done" /\ mode = "reset"
        /\ log.wmCalls # <<>> /\ log.wmCalls[1].landed) =>
        /\ last_check_json = log.reset_date
        /\ last_check_json[1] < log.startedAt

\* C13: liveness of retry.  Under repeated normal runs with the checkpoint
\* store reachable, where every item that keeps being attempted eventually
\* succeeds at all stages, an item that was discovered and failed in a run
\* eventually enters the persisted processed set (unless the clock of the
\* model runs out first).
C13_FailedEventuallyProcessed ==
    \A v \in Videos :
        (pc = "done" /\ v \in Failed) ~> (v \in PersistedIds \/ now = MaxTime)

\* C14: in any single run (normal, retry or reset) each of the two remote
\* records is written at most once: the run makes at most one
\* processed-set save call and at most one watermark save call.
C14_OneWritePerKey ==
    /\ Len(log.psCalls) <= 1
    /\ Len(log.wmCalls) <= 1

\* A normal run that wrote both records, each once, and both writes landed.
C14_Witness ==
    /\ NormalRunDone
    /\ Len(log.psCalls) = 1 /\ log.psCalls[1].landed
    /\ Len(log.wmCalls) = 1 /\ log.wmCalls[1].landed
    /\ processed_videos_json # log.psBefore
    /\ last_check_json # log.wmBefore

\* C15: a failed checkpoint write never aborts a run and is never raised to
\* the caller: no run ends in an exception, a run whose processed-set write
\* failed still goes on to the watermark decision, and at the end of a run a
\* record whose write failed holds the value it had before.
C15_FailedWriteSwallowed ==
    /\ pc # "aborted"
    /\ pc = "done" =>
          /\ (log.psCalls # <<>> /\ ~log.psCalls[1].landed)
                => processed_videos_json = log.psBefore
          /\ (log.wmCalls # <<>> /\ ~log.wmCalls[1].landed)
                => last_check_json = log.wmBefore
          /\ (mode = "normal" /\ log.psCalls # <<>>
                /\ UpdatesLastCheck(successful_attempts, total_attempts))
                => log.wmCalls # <<>>

\* A normal run that processed an item: the processed-set write failed, the
\* run went on, and the watermark write that followed landed.
C15_Witness ==
    /\ NormalRunDone
    /\ Sunk # {}
    /\ log.psBefore # <<>>
    /\ log.psCalls # <<>> /\ ~log.psCalls[1].landed
    /\ processed_videos_json = log.psBefore
    /\ log.wmCalls # <<>> /\ log.wmCalls[1].landed

\* C16: checkpoint reads never raise and fail open.  No run ends in an
\* exception; the watermark read returns the stored time when the token is
\* set, the request succeeds and the record exists and parses, and otherwise
\* the time of the read minus one day; the processed-set read returns the
\* stored set under the same conditions and otherwise the empty set.
C16_ReadsFailOpen ==
    /\ pc # "aborted"
    /\ \A i \in 1..Len(log.wmRead) :
          log.wmRead[i].value =
              IF log.wmRead[i].ok /\ log.wmBefore # <<>>
              THEN log.wmBefore[1]
              ELSE log.wmRead[i].at - OneDay
    /\ \A i \in 1..Len(log.psRead) :
          /\ log.psRead[i].value =
                 IF log.psReadOk /\ log.psBefore # <<>>
                 THEN log.psBefore[1]
                 ELSE {}
          /\ processed_video_ids = log.psRead[i].value

\* A normal run whose processed-set read returned a stored non-empty set and
\* whose watermark read failed although a record is stored: the query went
\* one day back from the time of the read.
C16_Witness ==
    /\ NormalRunDone
    /\ log.psReadOk /\ log.psBefore # <<>> /\ processed_video_ids # {}
    /\ log.wmRead # <<>> /\ ~log.wmRead[1].ok
    /\ log.wmBefore # <<>>
    /\ log.wmRead[1].value = log.wmRead[1].at - OneDay
    /\ log.wmRead[1].value # log.wmBefore[1]

\* C17: the duration filter is fail-closed.  A candidate enters the batch
\* only if its duration was looked up and its length, over hours, minutes and
\* seconds, is at most MAX_DURATION seconds; a longer one, or one whose
\* duration is missing or does not parse, is excluded.
C17_FilterFailClosed ==
    candidate.in_videos = "yes" =>
        /\ candidate.lookupOk
        /\ TotalSeconds(candidate.duration) <= MAX_DURATION

\* C18: per-item failure isolation.  The items a run has attempted followed
\* by those it has still to attempt are the unprocessed list in discovery
\* order, no item is attempted twice, and a run ends only when none is left,
\* whatever failed; at the end of a normal run attempted is the length of the
\* unprocessed list, and succeeded is the number of items for which download,
\* transcription and append all succeeded.
C18_FailureIsolation ==
    LET ids == [i \in ItemIndices |-> log.items[i].id]
        un  == Unprocessed(videos, processed_video_ids)
        allOk == {i \in ItemIndices :
                     /\ log.items[i].download = "ok"
                     /\ log.items[i].transcribe = "ok"
                     /\ log.items[i].append = "ok"}
    IN  pc \in {"loop", "save_processed", "save_last_check", "done"} =>
          /\ ids \o unprocessed_videos = un
          /\ \A i, j \in ItemIndices : ids[i] = ids[j] => i = j
          /\ successful_attempts = Cardinality(allOk)
          /\ pc # "loop" =>
                /\ unprocessed_videos = <<>>
                /\ mode = "normal" => total_attempts = Len(un)

\* A normal run over two items: the first failed at download, the second was
\* still attempted and succeeded.
C18_Witness ==
    /\ NormalRunDone
    /\ Len(log.items) = 2
    /\ log.items[1].download = "failed"
    /\ log.items[2].append = "ok"
    /\ total_attempts = 2 /\ successful_attempts = 1

\* C19: when the discovery batch is empty or every item of it is in the
\* processed set, a normal run makes one watermark save call with the current
\* time (the stored watermark is that time when the store takes the write)
\* and ends without a download, transcribe or append call and without a
\* processed-set save call.
C19_NothingToDoAdvances ==
    (NormalRunDone /\ Range(videos) \subseteq processed_video_ids) =>
        /\ Len(log.wmCalls) = 1
        /\ log.wmCalls[1].value = now
        /\ log.wmCalls[1].landed => last_check_json = <<now>>
        /\ log.items = <<>>
        /\ Len(document) = log.docLen
        /\ log.psCalls = <<>>

\* A run whose batch of one item was all processed before, and whose
\* watermark write moved a stored watermark forward.
C19_Witness ==
    /\ NormalRunDone
    /\ Len(videos) = 1
    /\ Range(videos) \subseteq processed_video_ids
    /\ log.wmBefore # <<>>
    /\ log.wmCalls # <<>> /\ log.wmCalls[1].landed
    /\ last_check_json = <<now>>
    /\ now > log.wmBefore[1]

\* C20: protection against concurrent writers.  When two runs overlap, no
\* write removes an id from the stored processed set: every id persisted
\* before a step is persisted after it.
C20_NoLostUpdate ==
    [][Content(processed_videos_json) \subseteq Content(processed_videos_json')]_vars

\* C21: audio acquisition tries its strategies in the fixed order standard,
\* alternate format, mobile identity, conversion API: the strategies tried
\* are an initial part of that order, every strategy tried before another one
\* failed, and the call returns no file only when all four were tried and
\* all of them failed.
C21_StrategyOrder ==
    LET a == acquisition
        delivers == [st \in Range(StrategyOrder) |->
                        CASE st = "standard"   -> a.m1
                          [] st = "alt_format" -> a.m2
                          [] st = "mobile"     -> a.m3
                          [] OTHER             -> a.api1 \/ a.api2]
    IN  (a # <<>> /\ a.audio_file # "pending") =>
          /\ a.tried = SubSeq(StrategyOrder, 1, Len(a.tried))
          /\ \A i \in 1..(Len(a.tried) - 1) : ~delivers[a.tried[i]]
          /\ a.audio_file = "None" =>
                /\ a.tried = StrategyOrder
                /\ \A st \in Range(StrategyOrder) : ~delivers[st]

\* C22: checkpoint write ordering.  In a normal run that processed items,
\* at every point of the run (each is a point where the process may die): the
\* watermark save is reached or called only after the processed-set save was
\* called with every id that succeeded in the run, and the stored watermark
\* has not moved while an id that succeeded is missing from the persisted set
\* for lack of that call.
C22_ProcessedBeforeWatermark ==
    (mode = "normal" /\ log.items # <<>>) =>
        /\ (pc = "save_last_check" \/ log.wmCalls # <<>>) =>
              /\ Len(log.psCalls) = 1
              /\ Sunk \subseteq log.psCalls[1].payload
        /\ \A v \in Sunk :
              (last_check_json # log.wmBefore /\ v \notin PersistedIds)
                  => log.psCalls # <<>>

\* Between the two writes: an item succeeded, the processed-set write landed
\* with its id, the watermark save is next and the watermark has not moved.
C22_Witness ==
    /\ mode = "normal"
    /\ pc = "save_last_check"
    /\ Sunk # {}
    /\ log.psCalls # <<>> /\ log.psCalls[1].landed
    /\ Sunk \subseteq PersistedIds
    /\ log.wmCalls = <<>>
    /\ last_check_json = log.wmBefore

\* C23: no item published while a run is in progress is skipped.  When a
\* normal run that made its discovery query saves the watermark, the value
\* saved is not later than the time of the query, and, when the store takes
\* the write, every video published after the query and absent from the batch
\* is inside the window of the stored watermark.
C23_WatermarkNotPastQuery ==
    (NormalRunDone /\ log.wmRead # <<>> /\ log.wmCalls # <<>>) =>
        /\ log.wmCalls[1].value <= log.wmRead[1].at
        /\ log.wmCalls[1].landed =>
              \A v \in uploaded \ Range(videos) :
                  publishedAt[v] > log.wmRead[1].at
                      => InWindow(v, last_check_json)

\* C24: a retry run searches from the lookback date the operator gave, not
\* from the stored watermark, and neither reads nor writes the watermark
\* record: at every point of a retry run the stored watermark is the one
\* stored when the run started, whatever happened to the items.
C24_RetryLeavesWatermark ==
    mode = "retry" =>
        /\ log.publishedAfter # <<>> => log.publishedAfter = force_date
        /\ force_date = <<log.startedAt - DefaultDaysBack * OneDay>>
              \/ force_date = <<log.startedAt - OneDay>>
        /\ log.wmRead = <<>>
        /\ log.wmCalls = <<>>
        /\ last_check_json = log.wmBefore

\* A retry run that found a video published before the stored watermark,
\* processed one item and failed another, and left the watermark alone.
C24_Witness ==
    /\ RetryRunDone
    /\ log.wmBefore # <<>>
    /\ \E i \in 1..Len(videos) : publishedAt[videos[i]] <= log.wmBefore[1]
    /\ Sunk # {} /\ Failed # {}
    /\ log.psCalls # <<>> /\ log.psCalls[1].landed
    /\ last_check_json = log.wmBefore

====
